---- MODULE Spec2Model ----
(***************************************************************************)
(* Change making (src/main.py): the fewest coins of given denominations    *)
(* whose values sum to a target.  Four strategies of the source are        *)
(* modelled: change_cached, change_direct, change_simplex and              *)
(* change_simplex_np, the last with its compiled helper simplex_loop.      *)
(*                                                                         *)
(* Python tuples, lists and array rows are TLA+ sequences (1-based, so the *)
(* source's index k is k+1 here).  A call's outcome is a record whose kind *)
(* is "value" (a returned tuple or list), "array" (a returned ndarray),    *)
(* "None" (the function fell off its end), "ValueError" (min() of an empty *)
(* sequence) or "pending" (not called yet).                                *)
(*                                                                         *)
(* cache is the cache of the impl that the latest change_cached call       *)
(* built; recalled is a history variable: the latest change_cached call    *)
(* came after an earlier one.                                              *)
(***************************************************************************)
EXTENDS Integers, Sequences, FiniteSets, TLC

VARIABLES denominations, target, r_cached, cache, recalled, r_direct,
          r_simplex, r_simplex_np, pc, total, dimensions, point_count,
          coords, i, j

vars == <<denominations, target, r_cached, cache, recalled, r_direct,
          r_simplex, r_simplex_np, pc, total, dimensions, point_count,
          coords, i, j>>

callVars == <<denominations, target, r_cached, cache, recalled, r_direct,
              r_simplex, r_simplex_np>>

loopVars == <<pc, total, dimensions, point_count, coords, i, j>>

(* Bounds of the model. *)
MaxCoin == 4

MaxLen == 3

MaxTarget == 6

MaxTotal == 4

MaxDims == 4

(***************************************************************************)
(* Python builtins the strategies use.                                     *)
(***************************************************************************)
RECURSIVE sum(_)
sum(s) == IF s = <<>> THEN 0 ELSE Head(s) + sum(Tail(s))

RECURSIVE insert(_, _)
insert(s, x) ==
    IF s = <<>> THEN <<x>>
    ELSE IF x < Head(s) THEN <<x>> \o s
    ELSE <<Head(s)>> \o insert(Tail(s), x)

RECURSIVE sorted(_)
sorted(s) == IF s = <<>> THEN <<>> ELSE insert(sorted(Tail(s)), Head(s))

(* sum(a*b for a, b in zip(xs, ys)) and the einsum over the shared axis;   *)
(* zip stops at the shorter argument.                                      *)
RECURSIVE dot(_, _)
dot(xs, ys) ==
    IF xs = <<>> \/ ys = <<>> THEN 0
    ELSE Head(xs) * Head(ys) + dot(Tail(xs), Tail(ys))

Pending == [kind |-> "pending", val |-> <<>>]

ValueError == [kind |-> "ValueError", val |-> <<>>]

None == [kind |-> "None", val |-> <<>>]

Value(v) == [kind |-> "value", val |-> v]

(* Variant of min_len: min(..., key=len, default=()), which answers the    *)
(* empty tuple for an empty sequence instead of raising.                   *)
min_default_len(seq) ==
    IF seq = <<>> THEN Value(<<>>)
    ELSE LET m == CHOOSE k \in {Len(seq[p]) : p \in DOMAIN seq} :
                      \A q \in DOMAIN seq : k <= Len(seq[q])
             f == CHOOSE p \in DOMAIN seq :
                      Len(seq[p]) = m /\ \A q \in 1..(p - 1) : Len(seq[q]) # m
         IN Value(seq[f])

(* min(seq, key=len): the first element of least length; ValueError when   *)
(* the sequence is empty.                                                  *)
min_len(seq) ==
    IF seq = <<>> THEN ValueError
    ELSE LET m == CHOOSE k \in {Len(seq[p]) : p \in DOMAIN seq} :
                      \A q \in DOMAIN seq : k <= Len(seq[q])
             f == CHOOSE p \in DOMAIN seq :
                      Len(seq[p]) = m /\ \A q \in 1..(p - 1) : Len(seq[q]) # m
         IN Value(seq[f])

(* min(seq, key=sum): the first element of least sum. *)
min_sum(seq) ==
    IF seq = <<>> THEN ValueError
    ELSE LET m == CHOOSE k \in {sum(seq[p]) : p \in DOMAIN seq} :
                      \A q \in DOMAIN seq : k <= sum(seq[q])
             f == CHOOSE p \in DOMAIN seq :
                      sum(seq[p]) = m /\ \A q \in 1..(p - 1) : sum(seq[q]) # m
         IN Value(seq[f])

(***************************************************************************)
(* change_cached: memoised depth-first search over sorted coin tuples.     *)
(***************************************************************************)
EmptyCache == [k \in {} |-> <<>>]

(* Variant of new_cache: one cache kept across calls, as a module-level    *)
(* memo keyed by the coin tuple alone would be.                            *)
shared_cache(c) == c

(* The cache impl starts with: @cache decorates the inner def, so every    *)
(* call of change_cached builds a new impl with a new, empty cache,        *)
(* whatever cache c the previous call's impl held.                         *)
new_cache(c) == EmptyCache

(* Variant of can_extend: < in place of <=. *)
strict_extend(current_total, x, T) == current_total + x < T

(* The generator's filter: may coin x still be added? *)
can_extend(current_total, x, T) == current_total + x <= T

(* impl(coins) run with cache c: the outcome and the cache afterwards.     *)
(* functools.cache returns a stored result on a hit, stores a normal       *)
(* return, and stores nothing when the call raises.  cached_min is the     *)
(* generator feeding min(): denominations in order from index k, the       *)
(* results so far in cands; an exception inside it propagates at once.     *)
RECURSIVE cached_impl(_, _, _, _)
RECURSIVE cached_min(_, _, _, _, _, _)
cached_impl(D, T, coins, c) ==
    IF coins \in DOMAIN c THEN [out |-> Value(c[coins]), cache |-> c]
    ELSE IF sum(coins) = T
         THEN [out |-> Value(coins), cache |-> (coins :> coins) @@ c]
    ELSE LET r == cached_min(D, T, coins, 1, <<>>, c)
         IN IF r.out.kind = "value"
            THEN [out |-> r.out, cache |-> (coins :> r.out.val) @@ r.cache]
            ELSE r

cached_min(D, T, coins, k, cands, c) ==
    IF k > Len(D) THEN [out |-> min_len(cands), cache |-> c]
    ELSE IF can_extend(sum(coins), D[k], T)
         THEN LET r == cached_impl(D, T, sorted(coins \o <<D[k]>>), c)
              IN IF r.out.kind = "value"
                 THEN cached_min(D, T, coins, k + 1,
                                 Append(cands, r.out.val), r.cache)
                 ELSE r
    ELSE cached_min(D, T, coins, k + 1, cands, c)

(* change_cached(D, T), called when the previous call's impl held cache c. *)
change_cached(D, T, c) == cached_impl(D, T, <<>>, new_cache(c))

(***************************************************************************)
(* change_direct: the bounded grid of count vectors, searched in bulk.     *)
(***************************************************************************)
(* The later coins that coin D[p] divides evenly, by position. *)
multiples(D, p) == {q \in (p + 1)..Len(D) : D[q] % D[p] = 0}

first_multiple(D, p) ==
    CHOOSE q \in multiples(D, p) : \A u \in multiples(D, p) : q <= u

(* Variant of axis: the ratio bound one too short. *)
axis_short_ratio(D, T, p) ==
    IF multiples(D, p) # {} THEN D[first_multiple(D, p)] \div D[p] - 1
    ELSE T \div D[p] + 1

(* The size of axis p: the ratio to the first later coin that D[p]         *)
(* divides, else target // coin + 1.                                       *)
axis(D, T, p) ==
    IF multiples(D, p) # {} THEN D[first_multiple(D, p)] \div D[p]
    ELSE T \div D[p] + 1

axes(D, T) == [p \in 1..Len(D) |-> axis(D, T, p)]

RECURSIVE prod(_)
prod(s) == IF s = <<>> THEN 1 ELSE Head(s) * prod(Tail(s))

(* The grid cell at flat position k (from 0) of an array of shape ax, in   *)
(* row-major order, the order np.nonzero reports its matches in.           *)
unravel(k, ax) ==
    [p \in 1..Len(ax) |-> (k \div prod(SubSeq(ax, p + 1, Len(ax)))) % ax[p]]

(* The index tuples of np.nonzero(money == target), zipped: the cells     *)
(* worth the target.                                                       *)
matches(D, T) ==
    LET ax == axes(D, T)
        cells == [k \in 1..prod(ax) |-> unravel(k - 1, ax)]
        hit(cell) == dot(cell, D) = T
    IN SelectSeq(cells, hit)

change_direct(D, T) == min_sum(matches(D, T))

(***************************************************************************)
(* change_simplex: count vectors in order of their number of coins.        *)
(***************************************************************************)
(* simplexPoints(total, dimensions) of change_simplex, as the sequence it  *)
(* yields.  simplex_range is the for loop of impl from x on.               *)
RECURSIVE simplex_impl(_, _, _)
RECURSIVE simplex_range(_, _, _, _)
simplex_impl(seq, tot, dims) ==
    IF Len(seq) < dims - 1 THEN simplex_range(seq, 0, tot, dims)
    ELSE <<seq \o <<tot - sum(seq)>>>>

simplex_range(seq, x, tot, dims) ==
    IF x >= tot - sum(seq) + 1 THEN <<>>
    ELSE simplex_impl(seq \o <<x>>, tot, dims)
             \o simplex_range(seq, x + 1, tot, dims)

simplexPoints(tot, dims) == simplex_impl(<<>>, tot, dims)

(* Variant of last_count: bounded by the largest coin, not the smallest. *)
last_count_by_largest(D, T) == T \div D[Len(D)]

(* The last coinCount tried: range(1, target // denominations[0] + 1). *)
last_count(D, T) == T \div D[1]

RECURSIVE simplex_search(_, _, _)
simplex_search(D, T, coinCount) ==
    IF coinCount > last_count(D, T) THEN None
    ELSE LET hit(coordinates) == dot(coordinates, D) = T
             hits == SelectSeq(simplexPoints(coinCount, Len(D)), hit)
         IN IF hits # <<>> THEN Value(hits[1])
            ELSE simplex_search(D, T, coinCount + 1)

change_simplex(D, T) == simplex_search(D, T, 1)

(***************************************************************************)
(* simplex_loop: the same points, each row made from the row before.       *)
(***************************************************************************)
(* math.comb(n, k) *)
RECURSIVE comb(_, _)
comb(n, k) ==
    IF k = 0 THEN 1
    ELSE IF n = 0 THEN 0
    ELSE comb(n - 1, k - 1) + comb(n - 1, k)

(* Variant of points: one point too many. *)
comb_plus_one(tot, dims) == comb(tot + dims - 1, dims - 1) + 1

(* point_count = math.comb(total + dimensions - 1, dimensions - 1) *)
points(tot, dims) == comb(tot + dims - 1, dims - 1)

(* np.zeros((point_count, dimensions)) *)
zeros(count, dims) == [p \in 1..count |-> [q \in 1..dims |-> 0]]

(* A Python index: a negative one counts from the end. *)
index(k, dims) == IF k < 0 THEN k + dims ELSE k

(* The backward scan: the last column (from 0) holding a nonzero entry; a  *)
(* scan that never breaks leaves j at 0.                                   *)
scan(row, dims) ==
    LET nz == {k \in 0..(dims - 1) : row[k + 1] # 0}
    IN IF nz = {} THEN 0 ELSE CHOOSE k \in nz : \A u \in nz : u <= k

(* Variant of reset: the last entry is not reduced. *)
reset_keep_last(row, first, jj, dims) ==
    [q \in 1..dims |-> IF q - 1 >= jj THEN first[q] ELSE row[q]]

(* The else branch: columns j.. are reset to row 0's, and the last entry   *)
(* gives up what the columns before j hold.                                *)
reset(row, first, jj, dims) ==
    LET r == [q \in 1..dims |-> IF q - 1 >= jj THEN first[q] ELSE row[q]]
    IN [r EXCEPT ![dims] = @ - sum(SubSeq(r, 1, jj))]

(* The adjacent transfer of the if branch: coords[i, j] -= 1. *)
transfer(row, jj) == [row EXCEPT ![jj + 1] = @ - 1]

(* One pass of the loop body: row i from the copy of row i-1 (prev), with  *)
(* row 0 (first) at hand.                                                  *)
next_row(prev, first, dims) ==
    LET jj == scan(prev, dims)
        r == [prev EXCEPT ![index(jj - 1, dims) + 1] = @ + 1]
    IN IF jj = dims - 1 THEN transfer(r, jj) ELSE reset(r, first, jj, dims)

(* Row 0 after coords[0, -1] = total. *)
first_row(c, tot, dims) == [c EXCEPT ![1] = [@ EXCEPT ![dims] = tot]]

(* The whole loop, from Python row k on. *)
RECURSIVE loop_from(_, _, _, _)
loop_from(c, k, count, dims) ==
    IF k >= count THEN c
    ELSE loop_from([c EXCEPT ![k + 1] = next_row(c[k], c[1], dims)],
                   k + 1, count, dims)

simplex_loop(c, tot, count, dims) ==
    loop_from(first_row(c, tot, dims), 1, count, dims)

(* simplexPoints(total, dimensions) of change_simplex_np. *)
simplexPoints_np(tot, dims) ==
    simplex_loop(zeros(points(tot, dims), dims), tot, points(tot, dims), dims)

(***************************************************************************)
(* change_simplex_np                                                       *)
(***************************************************************************)
PendingArray == [kind |-> "pending", shape |-> <<>>, rows |-> <<>>]

NoneArray == [kind |-> "None", shape |-> <<>>, rows |-> <<>>]

(* np.squeeze drops every axis of length one; the data stay as they are. *)
squeeze(shape) == LET keep(d) == d # 1 IN SelectSeq(shape, keep)

(* np.squeeze(coordinates[match]): the matching rows, in row order. *)
squeezed(rows, dims) ==
    [kind |-> "array", shape |-> squeeze(<<Len(rows), dims>>), rows |-> rows]

RECURSIVE simplex_np_search(_, _, _)
simplex_np_search(D, T, coinCount) ==
    IF coinCount > last_count(D, T) THEN NoneArray
    ELSE LET hit(coordinates) == dot(coordinates, D) = T
             hits == SelectSeq(simplexPoints_np(coinCount, Len(D)), hit)
         IN IF hits # <<>> THEN squeezed(hits, Len(D))
            ELSE simplex_np_search(D, T, coinCount + 1)

change_simplex_np(D, T) == simplex_np_search(D, T, 1)

(***************************************************************************)
(* The inputs: strictly increasing positive denominations, a target >= 0.  *)
(***************************************************************************)
StrictlyIncreasing(s) == \A p \in 1..(Len(s) - 1) : s[p] < s[p + 1]

Denominations ==
    {s \in UNION {[1..n -> 1..MaxCoin] : n \in 1..MaxLen} : StrictlyIncreasing(s)}

Targets == 0..MaxTarget

LoopIdle ==
    /\ pc = "idle"
    /\ total = 0
    /\ dimensions = 1
    /\ point_count = 0
    /\ coords = <<>>
    /\ i = 0
    /\ j = 0

Init ==
    /\ denominations \in Denominations
    /\ target \in Targets
    /\ r_cached = Pending
    /\ cache = EmptyCache
    /\ recalled = FALSE
    /\ r_direct = Pending
    /\ r_simplex = Pending
    /\ r_simplex_np = PendingArray
    /\ LoopIdle

(* A call change_cached(D, T). *)
call_change_cached(D, T) ==
    /\ LET r == change_cached(D, T, cache)
       IN /\ r_cached' = r.out
          /\ cache' = r.cache
    /\ recalled' = (r_cached.kind # "pending")
    /\ denominations' = D
    /\ target' = T
    /\ UNCHANGED <<r_direct, r_simplex, r_simplex_np, loopVars>>

call_change_direct ==
    /\ r_direct' = change_direct(denominations, target)
    /\ UNCHANGED <<denominations, target, r_cached, cache, recalled,
                   r_simplex, r_simplex_np, loopVars>>

call_change_simplex ==
    /\ r_simplex' = change_simplex(denominations, target)
    /\ UNCHANGED <<denominations, target, r_cached, cache, recalled,
                   r_direct, r_simplex_np, loopVars>>

call_change_simplex_np ==
    /\ r_simplex_np' = change_simplex_np(denominations, target)
    /\ UNCHANGED <<denominations, target, r_cached, cache, recalled,
                   r_direct, r_simplex, loopVars>>

(* The four strategies, each applied to the given input as main does. *)
Next ==
    \/ call_change_cached(denominations, target)
    \/ call_change_direct
    \/ call_change_simplex
    \/ call_change_simplex_np

Spec == Init /\ [][Next]_vars

(***************************************************************************)
(* Repeated calls of change_cached, each with an input of its own.         *)
(***************************************************************************)
NextCached == \E D \in Denominations, T \in Targets : call_change_cached(D, T)

SpecCached == Init /\ [][NextCached]_vars

(***************************************************************************)
(* simplexPoints of change_simplex_np, one pass of simplex_loop at a time. *)
(***************************************************************************)
InitLoop ==
    /\ denominations = <<1>>
    /\ target = 0
    /\ r_cached = Pending
    /\ cache = EmptyCache
    /\ recalled = FALSE
    /\ r_direct = Pending
    /\ r_simplex = Pending
    /\ r_simplex_np = PendingArray
    /\ pc = "call"
    /\ total \in 0..MaxTotal
    /\ dimensions \in 1..MaxDims
    /\ point_count = 0
    /\ coords = <<>>
    /\ i = 0
    /\ j = 0

(* point_count = math.comb(...); coords = np.zeros(...) *)
allocate ==
    /\ pc = "call"
    /\ point_count' = points(total, dimensions)
    /\ coords' = zeros(points(total, dimensions), dimensions)
    /\ pc' = "entry"
    /\ UNCHANGED <<callVars, total, dimensions, i, j>>

(* coords[0, -1] = total, and the for loop starts at 1. *)
loop_entry ==
    /\ pc = "entry"
    /\ coords' = first_row(coords, total, dimensions)
    /\ i' = 1
    /\ pc' = "for"
    /\ UNCHANGED <<callVars, total, dimensions, point_count, j>>

(* One pass of the body of for i in range(1, point_count). *)
loop_pass ==
    /\ pc = "for"
    /\ i < point_count
    /\ j' = scan(coords[i], dimensions)
    /\ coords' = [coords EXCEPT ![i + 1] = next_row(coords[i], coords[1], dimensions)]
    /\ i' = i + 1
    /\ UNCHANGED <<callVars, pc, total, dimensions, point_count>>

(* The range is exhausted: simplex_loop returns. *)
loop_return ==
    /\ pc = "for"
    /\ i >= point_count
    /\ pc' = "done"
    /\ UNCHANGED <<callVars, total, dimensions, point_count, coords, i, j>>

NextLoop == allocate \/ loop_entry \/ loop_pass \/ loop_return

SpecLoop == InitLoop /\ [][NextLoop]_vars

(***************************************************************************)
(* What the properties measure the strategies against.                     *)
(***************************************************************************)
(* The sums, up to T, of exactly k coins of D. *)
RECURSIVE ExactSums(_, _, _)
ExactSums(D, T, k) ==
    IF k = 0 THEN {0}
    ELSE {s + D[p] : s \in ExactSums(D, T, k - 1), p \in 1..Len(D)} \cap 0..T

(* The coin counts of the multisets of D that sum to T. *)
CoinCounts(D, T) == {k \in 0..T : T \in ExactSums(D, T, k)}

Feasible(D, T) == CoinCounts(D, T) # {}

MinCount(D, T) ==
    CHOOSE k \in CoinCounts(D, T) : \A u \in CoinCounts(D, T) : k <= u

(* The sums, up to T, of all multisets of D. *)
Sums(D, T) == UNION {ExactSums(D, T, k) : k \in 0..T}

Coins(D) == {D[p] : p \in 1..Len(D)}

MinCoin(D) == CHOOSE x \in Coins(D) : \A y \in Coins(D) : x <= y

(* A partial sum below the target that no coin can extend. *)
DeadEnd(D, T) == \E s \in Sums(D, T) : T - MinCoin(D) < s /\ s < T

Called(r) == r.kind # "pending"

AllZero(n) == [q \in 1..n |-> 0]

(* The rows of simplexPoints(tot, dims) worth T, in order. *)
Hits(D, T, tot) ==
    LET hit(coordinates) == dot(coordinates, D) = T
    IN SelectSeq(simplexPoints(tot, Len(D)), hit)

(* C1: when some multiset of the denominations sums to the target,         *)
(* change_cached returns a sorted tuple of coin values that sums to the    *)
(* target and has the least possible number of coins.                      *)
C1_CachedReturnsOptimal ==
    (Called(r_cached) /\ Feasible(denominations, target)) =>
        /\ r_cached.kind = "value"
        /\ \A p \in 1..Len(r_cached.val) : r_cached.val[p] \in Coins(denominations)
        /\ \A p \in 1..(Len(r_cached.val) - 1) : r_cached.val[p] <= r_cached.val[p + 1]
        /\ sum(r_cached.val) = target
        /\ Len(r_cached.val) = MinCount(denominations, target)

(* C2: when the target is feasible, change_direct returns a count vector   *)
(* worth the target whose coin count is the least over all feasible        *)
(* compositions, inside the bounded grid or not.                           *)
C2_DirectOptimal ==
    (Called(r_direct) /\ Feasible(denominations, target)) =>
        /\ r_direct.kind = "value"
        /\ Len(r_direct.val) = Len(denominations)
        /\ \A p \in 1..Len(r_direct.val) : r_direct.val[p] >= 0
        /\ dot(r_direct.val, denominations) = target
        /\ sum(r_direct.val) = MinCount(denominations, target)

(* change_direct has answered with two coins or more on a grid that a      *)
(* ratio bound made shorter than target // coin + 1.                       *)
C2_Witness ==
    /\ r_direct.kind = "value"
    /\ sum(r_direct.val) >= 2
    /\ \E p \in 1..Len(denominations) :
           /\ multiples(denominations, p) # {}
           /\ axis(denominations, target, p) < target \div denominations[p] + 1

(* C3: when the target is at least 1 and feasible, change_simplex returns  *)
(* the first composition worth the target, in the order coinCount = 1, 2,  *)
(* ... and within one coinCount in the order of simplexPoints, and that    *)
(* composition has the least coin count of all feasible compositions.      *)
C3_SimplexFirstOptimal ==
    (Called(r_simplex) /\ target >= 1 /\ Feasible(denominations, target)) =>
        /\ r_simplex.kind = "value"
        /\ dot(r_simplex.val, denominations) = target
        /\ sum(r_simplex.val) = MinCount(denominations, target)
        /\ sum(r_simplex.val) <= target \div denominations[1]
        /\ r_simplex.val = Hits(denominations, target, sum(r_simplex.val))[1]
        /\ \A c \in 1..(sum(r_simplex.val) - 1) : Hits(denominations, target, c) = <<>>

(* change_simplex has answered at a coin count of two or more at which     *)
(* several compositions are worth the target.                              *)
C3_Witness ==
    /\ r_simplex.kind = "value"
    /\ sum(r_simplex.val) >= 2
    /\ Len(Hits(denominations, target, sum(r_simplex.val))) >= 2

(* C4: the rows simplex_loop writes, read in row order, are the sequence   *)
(* the recursive generator simplexPoints of change_simplex yields: the     *)
(* same length, the same compositions, the same order.                     *)
C4_LoopEqualsGenerator ==
    (pc = "done") =>
        /\ Len(coords) = Len(simplexPoints(total, dimensions))
        /\ coords = simplexPoints(total, dimensions)

(* simplex_loop has returned for three dimensions or more and a total of   *)
(* three or more.                                                          *)
C4_Witness == pc = "done" /\ dimensions >= 3 /\ total >= 3 /\ i = point_count

(* C5: with target 0 every strategy yields the all-zero composition (the   *)
(* empty tuple for change_cached), never a missing result.                 *)
C5_ZeroTargetAllZero ==
    (target = 0) =>
        /\ Called(r_cached) => r_cached = Value(<<>>)
        /\ Called(r_direct) => r_direct = Value(AllZero(Len(denominations)))
        /\ Called(r_simplex) => r_simplex = Value(AllZero(Len(denominations)))
        /\ Called(r_simplex_np) =>
               /\ r_simplex_np.kind = "array"
               /\ r_simplex_np.rows = <<AllZero(Len(denominations))>>

(* C6: when no composition is worth the target, no strategy returns one:   *)
(* change_cached and change_direct end in min() of an empty sequence,      *)
(* change_simplex and change_simplex_np exhaust coinCount and return None. *)
C6_InfeasibleReported ==
    (~Feasible(denominations, target)) =>
        /\ Called(r_cached) => r_cached = ValueError
        /\ Called(r_direct) => r_direct = ValueError
        /\ Called(r_simplex) => r_simplex = None
        /\ Called(r_simplex_np) => r_simplex_np = NoneArray

(* All four strategies have answered for denominations (2, 4), target 3.   *)
C6_Witness ==
    /\ denominations = <<2, 4>>
    /\ target = 3
    /\ ~Feasible(denominations, target)
    /\ Called(r_cached)
    /\ Called(r_direct)
    /\ Called(r_simplex)
    /\ Called(r_simplex_np)

(* C7: where change_simplex returns a composition, change_simplex_np       *)
(* returns exactly one count vector, the same one, also when several       *)
(* compositions of the least coinCount are worth the target.               *)
C7_NpEqualsSimplex ==
    (Called(r_simplex_np) /\ r_simplex.kind = "value") =>
        /\ r_simplex_np.kind = "array"
        /\ Len(r_simplex_np.rows) = 1
        /\ r_simplex_np.rows[1] = r_simplex.val

(* C8: whatever calls of change_cached came before, a call starts with an  *)
(* empty cache: it returns what the same call made first returns, and      *)
(* every entry of its cache was stored under its own denominations and     *)
(* target (a tuple of its coins, mapped to a tuple that sums to its        *)
(* target).                                                                *)
C8_CacheFreshPerCall ==
    Called(r_cached) =>
        /\ r_cached = cached_impl(denominations, target, <<>>, EmptyCache).out
        /\ \A key \in DOMAIN cache :
               /\ \A p \in 1..Len(key) : key[p] \in Coins(denominations)
               /\ sum(key) <= target
               /\ sum(cache[key]) = target

(* A call of change_cached that followed an earlier call has returned,     *)
(* with three partial tuples or more in its cache.                         *)
C8_Witness ==
    /\ recalled
    /\ r_cached.kind = "value"
    /\ Cardinality(DOMAIN cache) >= 3

(* C9: change_cached ends in min() of an empty sequence exactly when some  *)
(* multiset of the denominations has a sum s with                          *)
(* target - min(denominations) < s < target; so never when 1 is a coin,    *)
(* and also when another branch reaches the target.                        *)
C9_FailsIffDeadEnd ==
    Called(r_cached) =>
        /\ (r_cached.kind = "ValueError") <=> DeadEnd(denominations, target)
        /\ (1 \in Coins(denominations)) => r_cached.kind = "value"

(* change_cached has failed on a dead end although the target is feasible. *)
C9_Witness ==
    /\ r_cached.kind = "ValueError"
    /\ Feasible(denominations, target)
    /\ DeadEnd(denominations, target)

(* C10: in every pass of simplex_loop the backward scan stops at a nonzero *)
(* entry of the copied row with index j >= 1, so coords[i, j-1] is not the *)
(* last column by wrap-around, and the row written has only non-negative   *)
(* entries, which sum to total.  After a pass i is one more than the row   *)
(* written, so that row is coords[i] here and the copied row coords[i-1].  *)
C10_ScanStopsInside ==
    (pc \in {"for", "done"} /\ i >= 2) =>
        /\ j >= 1
        /\ coords[i - 1][j + 1] # 0
        /\ \A q \in 1..dimensions : coords[i][q] >= 0
        /\ sum(coords[i]) = total

(* A pass has taken the else branch: the scan stopped before the last      *)
(* column.                                                                 *)
C10_Witness == pc = "for" /\ i >= 2 /\ j >= 1 /\ j < dimensions - 1
====
